---- MODULE Spec2Model ----
(***************************************************************************)
(* Model of the small-talk backend: the Socket.IO event handlers of        *)
(* socket.js (room registry `rooms`, per-connection `currentRoom` and      *)
(* `currentNickname`, the fan-out of events) as a state machine, Spec, and *)
(* the voice store of storage.js with the two HTTP endpoints of server.js  *)
(* that use it as a second one, StoreSpec.                                 *)
(*                                                                         *)
(* JavaScript values that can be null are tagged records, so that the      *)
(* truthiness tests of the handlers (`if (currentRoom)`) are computed as   *)
(* JavaScript computes them: null and the empty string are both falsy.     *)
(***************************************************************************)
EXTENDS Integers, Sequences, FiniteSets, TLC

\* ---------------------------------------------------------------- bounds
\* The server handles at most MaxJoins join-room events in a run.
MaxJoins == 3

\* Math.random() is sampled on the grid k / RandDen, k in 0 .. RandDen-1.
RandDen == 10000

\* The clock is advanced at most MaxTicks times in a run of the voice store.
MaxTicks == 3

\* The voice store holds at most MaxRecords records in a run.
MaxRecords == 2
EdgeDraws == 9

\* The hours for which the interval timer is followed.
MaxHours == 26

\* ------------------------------------------------------------ input sets
\* socket.id of the connections the server sees (each connects once).
Conns == {"s1", "s2", "s3"}

\* Room identifiers a client may send: any string, not validated.
RoomIds == {"", "r1", "r2"}

\* Samples of the two draws of Math.random() in generateNickname: the two
\* ends of [0, 1) on the grid, hence "User1000" and "Member9999".
RandSamples == {<<0, 0>>, <<RandDen - 1, RandDen - 1>>}

\* ------------------------------------------------------ JavaScript values
NULL == [t |-> "null", v |-> ""]
UNDEFINED == [t |-> "undefined", v |-> ""]
Str(s) == [t |-> "string", v |-> s]

\* ToBoolean of a null / undefined / string value.
Truthy(x) == x.t = "string" /\ x.v # ""

\* Payloads of send-message: a well-formed one, one without content, none.
TextPayloads ==
  { [t |-> "object", content |-> Str("hi")],
    [t |-> "object", content |-> UNDEFINED],
    [t |-> "undefined", content |-> UNDEFINED] }

\* Payloads of send-voice: well-formed, and none.
VoicePayloads ==
  { [t |-> "object", messageId |-> Str("voice-1"), url |-> Str("/voice/voice-1")],
    [t |-> "undefined", messageId |-> UNDEFINED, url |-> UNDEFINED] }

\* ------------------------------------------------------------- identity
prefixes == <<"User", "Guest", "Visitor", "Friend", "Member">>

\* Math.floor(x * n) for x = k / RandDen.
FloorMul(k, n) == (k * n) \div RandDen

\* Variant of generateNickname: the number is Math.floor(Math.random() * 10000).
generateNickname_AnyNumber(rp, rn) ==
  prefixes[FloorMul(rp, Len(prefixes)) + 1] \o ToString(FloorMul(rn, 10000))

\* generateNickname with the two draws of Math.random() made explicit.
generateNickname(rp, rn) ==
  prefixes[FloorMul(rp, Len(prefixes)) + 1] \o ToString(FloorMul(rn, 9000) + 1000)

\* ------------------------------------------------------------- variables
VARIABLES
  conn,             \* socket id -> "idle" | "connected" | "closed"
  currentRoom,      \* socket id -> closure variable currentRoom
  currentNickname,  \* socket id -> closure variable currentNickname
  rooms,            \* the Map rooms: room id -> entries in insertion order
  adapter,          \* Socket.IO room membership: room id -> set of socket ids
  joins,            \* number of join-room events handled so far
  lastJoin,         \* history: socket id -> argument of its latest join-room
  lastAssigned,     \* history: socket id -> its latest nickname-assigned
  posted,           \* history: room ids a new-message was broadcast to
  out,              \* events emitted by the handler that ran last, in order
  last,             \* history: which handler ran last, and the state before it
  voiceMessages,    \* the Map voiceMessages: entries in insertion order
  now,              \* Date.now(), in milliseconds since the server started
  ticks,            \* number of clock advances so far
  sop,              \* history: the store operation that ran last, its result
  gone,             \* history: ids whose record a sweep deleted, not stored since
  nickCall,         \* the latest call of generateNickname: draws and result
  clients,          \* socket id -> state of the useSocket hook of its client
  recorder          \* the VoiceRecorder component of one client, its requests

roomVars == <<conn, currentRoom, currentNickname, rooms, adapter, joins, lastJoin,
              lastAssigned, posted, out, last>>

storeVars == <<voiceMessages, now, ticks, sop, gone>>

\* What the server's handlers and the store operations leave alone.
otherVars == <<nickCall, recorder>>

vars == <<roomVars, storeVars, otherVars, clients>>

\* --------------------------------------------------------------- registry
\* An entry { socketId, nickname } of a room's Set.
Entry(socketId, nickname) == [socketId |-> socketId, nickname |-> nickname]

\* Remove position i of a sequence.
RemoveAt(s, i) == SubSeq(s, 1, i - 1) \o SubSeq(s, i + 1, Len(s))

\* The Map without key k.
MapDelete(m, k) == [x \in DOMAIN m \ {k} |-> m[x]]

\* The Map with key k set to v.
MapSet(m, k, v) == [x \in DOMAIN m \cup {k} |-> IF x = k THEN v ELSE m[x]]

\* The entries of room q, none when the room does not exist.
RoomEntries(rms, q) == IF q \in DOMAIN rms THEN rms[q] ELSE <<>>

\* Variant of removeUserFromRoom: the whole room is deleted.
removeUserFromRoom_ClearRoom(rms, roomId, socketId) ==
  IF roomId \in DOMAIN rms THEN MapDelete(rms, roomId) ELSE rms

\* Variant of removeUserFromRoom: the empty room is not deleted.
removeUserFromRoom_KeepEmpty(rms, roomId, socketId) ==
  IF roomId \notin DOMAIN rms THEN rms
  ELSE LET room == rms[roomId]
           hits == {i \in 1..Len(room) : room[i].socketId = socketId}
       IN MapSet(rms, roomId,
                 IF hits = {} THEN room
                 ELSE RemoveAt(room, CHOOSE i \in hits : \A j \in hits : i <= j))

\* removeUserFromRoom(roomId, socketId): delete the first entry of that
\* socket, then delete the room when it is empty.
removeUserFromRoom(rms, roomId, socketId) ==
  IF roomId \notin DOMAIN rms THEN rms
  ELSE LET room == rms[roomId]
           hits == {i \in 1..Len(room) : room[i].socketId = socketId}
           room2 == IF hits = {} THEN room
                    ELSE RemoveAt(room, CHOOSE i \in hits : \A j \in hits : i <= j)
       IN IF Len(room2) = 0 THEN MapDelete(rms, roomId)
          ELSE MapSet(rms, roomId, room2)

\* if (!rooms.has(roomId)) rooms.set(roomId, new Set()); rooms.get(roomId).add(...)
addUserToRoom(rms, roomId, socketId, nickname) ==
  LET room == IF roomId \in DOMAIN rms THEN rms[roomId] ELSE <<>>
  IN MapSet(rms, roomId, Append(room, Entry(socketId, nickname)))

\* Array.from(rooms.get(roomId) || []).map(u => u.nickname)
participants(rms, roomId) ==
  IF roomId \in DOMAIN rms
  THEN [i \in 1..Len(rms[roomId]) |-> rms[roomId][i].nickname]
  ELSE <<>>

\* -------------------------------------------------------------- transport
\* socket.join(room)
socketJoin(ad, room, c) == [ad EXCEPT ![room] = @ \cup {c}]

\* socket.leave(room)
socketLeave(ad, room, c) == [ad EXCEPT ![room] = @ \ {c}]

\* Socket.IO takes a closing socket out of every room before 'disconnect'.
socketLeaveAll(ad, c) == [r \in DOMAIN ad |-> ad[r] \ {c}]

\* One emitted event with the sockets it is delivered to.
Emit(event, to, data) == [event |-> event, to |-> to, data |-> data]

\* socket.emit: the socket itself.
ToSelf(c) == {c}

\* socket.to(room): the room without the socket.
ToRoomExceptSelf(ad, room, c) == ad[room] \ {c}

\* io.to(room): the whole room.
ToRoom(ad, room, c) == ad[room]

\* ------------------------------------------------------------ voice store
\* const maxAge = 24 * 60 * 60 * 1000
maxAge == 24 * 60 * 60 * 1000

\* Variant of sweepPeriod: the timer fires every two hours.
sweepPeriod_TwoHours == 2 * 60 * 60 * 1000

\* setInterval(cleanupOldMessages, 60 * 60 * 1000)
sweepPeriod == 60 * 60 * 1000

\* Amounts by which the clock advances between two operations.
TickSteps == {1, maxAge}

\* Audio buffers: the bytes of a clip.
Buffers == {<<1, 2, 3, 4, 5>>, <<9>>}

\* MIME types an upload may carry.
MimeTypes == {"audio/webm", "audio/mp4"}

\* Message ids given to storeVoiceMessage and getVoiceMessage by a caller.
CallerIds == {"voice-1"}

\* Math.random().toString(36).substr(2, 9) of the upload endpoint.
RandSuffixes == {"k3j9x2m1q"}

\* limits: { fileSize: 5 * 1024 * 1024 } of the multer configuration.
fileSizeLimit == 5 * 1024 * 1024

\* The file of an upload request, or none. size is its length in bytes; buffer
\* holds its bytes, cut to the leading ones when size says there are more.
NoFile == [present |-> FALSE, buffer |-> <<>>, mimetype |-> "", size |-> 0]
SmallFiles == {[present |-> TRUE, buffer |-> <<1, 2, 3, 4, 5>>,
                mimetype |-> "audio/webm", size |-> 5],
               NoFile}
LargeFiles == {[present |-> TRUE, buffer |-> <<7>>, mimetype |-> "audio/webm",
                size |-> fileSizeLimit],
               [present |-> TRUE, buffer |-> <<8>>, mimetype |-> "audio/webm",
                size |-> fileSizeLimit + 1]}
Files == SmallFiles \cup LargeFiles

\* Variant of multerAccepts: no fileSize limit is configured.
multerAccepts_NoLimit(file) == TRUE

\* upload.single('audio') hands a file to the route unless it exceeds the limit.
multerAccepts(file) == file.size <= fileSizeLimit

\* { buffer, mimeType, timestamp }
Record(buffer, mimeType, timestamp) ==
  [t |-> "object", buffer |-> buffer, mimeType |-> mimeType, timestamp |-> timestamp]

\* Positions of the entries of the Map that have key id.
KeyPositions(vm, id) == {i \in 1..Len(vm) : vm[i].key = id}

\* Map.prototype.keys
Keys(vm) == {vm[i].key : i \in 1..Len(vm)}

\* Map.prototype.has
mapHas(vm, id) == KeyPositions(vm, id) # {}

\* Map.prototype.get: the value of the key, undefined when there is none.
mapGet(vm, id) ==
  IF mapHas(vm, id) THEN vm[CHOOSE i \in KeyPositions(vm, id) : TRUE].value
  ELSE UNDEFINED

\* Map.prototype.set: an existing key keeps its place and gets the value.
mapSet(vm, id, value) ==
  IF mapHas(vm, id)
  THEN [i \in 1..Len(vm) |-> IF vm[i].key = id THEN [key |-> id, value |-> value]
                             ELSE vm[i]]
  ELSE Append(vm, [key |-> id, value |-> value])

\* Variant of storeVoiceMessage: an existing record keeps its timestamp.
storeVoiceMessage_KeepStamp(vm, messageId, buffer, mimeType, t) ==
  mapSet(vm, messageId,
         Record(buffer, mimeType,
                IF mapHas(vm, messageId) THEN mapGet(vm, messageId).timestamp ELSE t))

\* Variant of storeVoiceMessage: the MIME type is not stored.
storeVoiceMessage_NoType(vm, messageId, buffer, mimeType, t) ==
  mapSet(vm, messageId, Record(buffer, "", t))

\* storeVoiceMessage(messageId, buffer, mimeType) called at time t.
storeVoiceMessage(vm, messageId, buffer, mimeType, t) ==
  mapSet(vm, messageId, Record(buffer, mimeType, t))

\* Variant of getVoiceMessage: the result of Map.get without the "|| null".
getVoiceMessage_NoDefault(vm, messageId) == mapGet(vm, messageId)

\* getVoiceMessage(messageId): voiceMessages.get(messageId) || null
getVoiceMessage(vm, messageId) ==
  IF mapGet(vm, messageId).t = "object" THEN mapGet(vm, messageId) ELSE NULL

\* Variant of storeAfterGet: a read refreshes the record's timestamp.
storeAfterGet_Touch(vm, messageId, t) ==
  IF mapHas(vm, messageId)
  THEN mapSet(vm, messageId, [mapGet(vm, messageId) EXCEPT !.timestamp = t])
  ELSE vm

\* The Map after getVoiceMessage(messageId) at time t: the call writes nothing.
storeAfterGet(vm, messageId, t) == vm

\* The test of the sweep: now - data.timestamp > maxAge
Expired(e, t) == t - e.value.timestamp > maxAge

\* What cleanupOldMessages leaves: the Map, its local deletedCount, the
\* value the call returns and whether it wrote its log line.
SweepResult(vm, deletedCount) ==
  [store |-> vm, deletedCount |-> deletedCount, returned |-> UNDEFINED,
   logged |-> deletedCount > 0]

\* Variant of cleanupOldMessages: the loop stops after its first deletion.
cleanupOldMessages_FirstOnly(vm, t) ==
  LET hits == {i \in 1..Len(vm) : Expired(vm[i], t)}
  IN IF hits = {} THEN SweepResult(vm, 0)
     ELSE SweepResult(RemoveAt(vm, CHOOSE i \in hits : \A j \in hits : i <= j), 1)

\* Variant of cleanupOldMessages: the test is >= instead of >.
cleanupOldMessages_AtLeast(vm, t) ==
  LET keep(e) == ~(t - e.value.timestamp >= maxAge)
  IN SweepResult(SelectSeq(vm, keep), Len(vm) - Len(SelectSeq(vm, keep)))

\* Variant of cleanupOldMessages: deletedCount counts every record visited.
cleanupOldMessages_CountsVisited(vm, t) ==
  LET keep(e) == ~Expired(e, t)
  IN SweepResult(SelectSeq(vm, keep), Len(vm))

\* cleanupOldMessages() called at time t: every entry whose age exceeds
\* maxAge is deleted and counted; the function has no return statement.
cleanupOldMessages(vm, t) ==
  LET keep(e) == ~Expired(e, t)
  IN SweepResult(SelectSeq(vm, keep), Len(vm) - Len(SelectSeq(vm, keep)))

\* `voice-${Date.now()}-${Math.random().toString(36).substr(2, 9)}`
uploadMessageId(t, suffix) == "voice-" \o ToString(t) \o "-" \o suffix

\* `/voice/${messageId}`
voiceUrl(messageId) == "/voice/" \o messageId

\* Message ids that occur in a run: the callers' and the uploads'.
AllIds(vm) == CallerIds \cup {"missing"} \cup {vm[i].key : i \in 1..Len(vm)}

\* The ids a caller may ask for: stored ones, deleted ones, never stored ones.
RequestIds == AllIds(voiceMessages) \cup gone

\* The :messageId parameter of the route /voice/:messageId for a url.
routeParam(url, ids) == CHOOSE id \in ids : voiceUrl(id) = url

\* The reply of POST /upload-voice.
uploadReply(file, messageId) ==
  IF ~file.present
  THEN [status |-> 400, messageId |-> "", url |-> ""]
  ELSE [status |-> 200, messageId |-> messageId, url |-> voiceUrl(messageId)]

\* The reply to an upload multer refused: its error goes to the error handler
\* of Express and the route is not run.
multerReject == [status |-> 500, messageId |-> "", url |-> ""]

\* The reply of GET /voice/:messageId for the record found, or null.
retrieveReply(voiceMessage) ==
  IF voiceMessage.t # "object"
  THEN [status |-> 404, contentType |-> "application/json", body |-> <<>>]
  ELSE [status |-> 200, contentType |-> voiceMessage.mimeType,
        body |-> voiceMessage.buffer]

\* A store operation with its arguments, its result and the state before it.
StoreOp(op, id, buffer, mimeType, result, deleted) ==
  [op |-> op, id |-> id, buffer |-> buffer, mimeType |-> mimeType,
   result |-> result, deleted |-> deleted, store0 |-> voiceMessages, now0 |-> now,
   file |-> NoFile]

NoStoreOp ==
  [op |-> "none", id |-> "", buffer |-> <<>>, mimeType |-> "", result |-> UNDEFINED,
   deleted |-> 0, store0 |-> <<>>, now0 |-> 0, file |-> NoFile]

\* The state of useSocket: nickname and participants, and as history the
\* entries of its latest participants-list (listed) and the entries announced
\* to it by user-joined since then (joined), as <<socket id, nickname>>.
ClientState(nickname, list, listed, joined) ==
  [nickname |-> nickname, participants |-> list,
   listed |-> listed, joined |-> joined]

\* useState(null), useState([])
NoClient == ClientState(NULL, <<>>, {}, {})

\* The recording sessions of the voice recorder, in the order they start.
Sessions == {1, 2}

\* No reply of POST /upload-voice has arrived.
NoReply == [status |-> 0, messageId |-> "", url |-> ""]

\* The VoiceRecorder component: its state isRecording and isUploading, its
\* refs audioChunksRef (each chunk named by the session whose recorder
\* produced it) and mediaRecorderRef (the session of the recorder, 0 for
\* null), and for every session where it stands and, while its clip is being
\* sent, the locals of its onstop and uploadVoiceMessage: the chunks of the
\* Blob it assembled, the reply to its upload, the send-voice payload emitted.
NoRecorder ==
  [isRecording |-> FALSE, isUploading |-> FALSE, audioChunks |-> <<>>,
   mediaRecorder |-> 0,
   phase |-> [s \in Sessions |-> "idle"],
   clip |-> [s \in Sessions |-> <<>>],
   reply |-> [s \in Sessions |-> NoReply],
   sent |-> [s \in Sessions |-> UNDEFINED]]

\* A call of generateNickname: its two draws and the nickname it returned.
Call(rp, rn, nickname) == [rp |-> rp, rn |-> rn, nickname |-> nickname]

NoCall == Call(0, 0, "")

\* ------------------------------------------------------------------- Init
NoEvent == [op |-> "none", socketId |-> "", roomId |-> "", room0 |-> NULL,
            nick0 |-> NULL, rooms0 |-> <<>>, adapter0 |-> [r \in RoomIds |-> {}],
            threw |-> FALSE, data |-> UNDEFINED, roomsAtEmit |-> <<>>]

Init ==
  /\ conn = [c \in Conns |-> "idle"]
  /\ currentRoom = [c \in Conns |-> NULL]
  /\ currentNickname = [c \in Conns |-> NULL]
  /\ rooms = <<>>
  /\ adapter = [r \in RoomIds |-> {}]
  /\ joins = 0
  /\ lastJoin = [c \in Conns |-> NULL]
  /\ lastAssigned = [c \in Conns |-> NULL]
  /\ posted = {}
  /\ out = <<>>
  /\ last = NoEvent
  /\ voiceMessages = <<>>
  /\ now = 0
  /\ ticks = 0
  /\ sop = NoStoreOp
  /\ gone = {}
  /\ nickCall = NoCall
  /\ clients = [c \in Conns |-> NoClient]
  /\ recorder = NoRecorder

\* What the handler that runs now records about the state it starts from.
Before(op, c, roomId) ==
  [op |-> op, socketId |-> c, roomId |-> roomId, room0 |-> currentRoom[c],
   nick0 |-> currentNickname[c], rooms0 |-> rooms, adapter0 |-> adapter,
   threw |-> FALSE, data |-> UNDEFINED, roomsAtEmit |-> rooms]

\* Variant of RegistryAtEmit: the emits come before the registry is written.
RegistryAtEmit_Before(before, after) == before

\* The registry at the first emit of a handler that writes it: join-room and
\* disconnect do all their writes first and emit afterwards.
RegistryAtEmit(before, after) == after

\* What a send handler that reads its payload records.
BeforeSend(op, c, data) == [Before(op, c, "") EXCEPT !.data = data]

\* Variant of Handles: a handler also runs for a socket that has disconnected.
Handles_AfterDisconnect(c) == conn[c] # "idle"

\* The handlers of a socket run from its 'connection' until its 'disconnect'.
Handles(c) == conn[c] = "connected"

\* ---------------------------------------------------------------- actions
\* io.on('connection'): a new socket with currentRoom = currentNickname = null.
Connect(c) ==
  /\ conn[c] = "idle"
  /\ conn' = [conn EXCEPT ![c] = "connected"]
  /\ out' = <<>>
  /\ last' = Before("connection", c, "")
  /\ UNCHANGED <<currentRoom, currentNickname, rooms, adapter, joins, lastJoin,
                 lastAssigned, posted>>
  /\ UNCHANGED <<storeVars, otherVars>>

\* The registry after the leave-previous-room step of join-room.
LeavePrevious(rms, room0, c) ==
  IF Truthy(room0) THEN removeUserFromRoom(rms, room0.v, c) ELSE rms

\* The transport rooms after the leave-previous-room step of join-room.
LeavePreviousTransport(ad, room0, c) ==
  IF Truthy(room0) THEN socketLeave(ad, room0.v, c) ELSE ad

\* Variant of JoinEmits: the member list is sent before the nickname.
JoinEmits_ListFirst(c, roomId, nick, rms, ad) ==
  << Emit("participants-list", ToSelf(c), participants(rms, roomId)),
     Emit("nickname-assigned", ToSelf(c), nick),
     Emit("user-joined", ToRoomExceptSelf(ad, roomId, c), nick) >>

\* Variant of JoinEmits: the joiner is also sent an earlier message of the room.
JoinEmits_Replay(c, roomId, nick, rms, ad) ==
  << Emit("nickname-assigned", ToSelf(c), nick),
     Emit("user-joined", ToRoomExceptSelf(ad, roomId, c), nick),
     Emit("participants-list", ToSelf(c), participants(rms, roomId)),
     Emit("new-message", ToSelf(c),
          [type |-> "text", content |-> "hi", nickname |-> nick]) >>

\* The three emits of join-room, in program order.
JoinEmits(c, roomId, nick, rms, ad) ==
  << Emit("nickname-assigned", ToSelf(c), nick),
     Emit("user-joined", ToRoomExceptSelf(ad, roomId, c), nick),
     Emit("participants-list", ToSelf(c), participants(rms, roomId)) >>

\* socket.on('join-room', roomId)
JoinRoom(c, roomId, rp, rn) ==
  /\ Handles(c)
  /\ joins < MaxJoins
  /\ LET nick == generateNickname(rp, rn)
         rooms1 == LeavePrevious(rooms, currentRoom[c], c)
         adapter1 == LeavePreviousTransport(adapter, currentRoom[c], c)
         rooms2 == addUserToRoom(rooms1, roomId, c, nick)
         adapter2 == socketJoin(adapter1, roomId, c)
     IN /\ currentRoom' = [currentRoom EXCEPT ![c] = Str(roomId)]
        /\ currentNickname' = [currentNickname EXCEPT ![c] = Str(nick)]
        /\ rooms' = rooms2
        /\ adapter' = adapter2
        /\ out' = JoinEmits(c, roomId, nick, RegistryAtEmit(rooms, rooms2), adapter2)
        /\ last' = [Before("join-room", c, roomId)
                    EXCEPT !.roomsAtEmit = RegistryAtEmit(rooms, rooms2)]
  /\ joins' = joins + 1
  /\ lastJoin' = [lastJoin EXCEPT ![c] = Str(roomId)]
  /\ lastAssigned' = [lastAssigned EXCEPT ![c] = Str(out'[1].data)]
  /\ UNCHANGED <<conn, posted>>
  /\ UNCHANGED <<storeVars, otherVars>>

\* Variant of Unjoined: a comparison with undefined instead of a falsy test.
Unjoined_OnlyUndefined(room, nick) == room.t = "undefined" \/ nick.t = "undefined"

\* if (!currentRoom || !currentNickname) return;
Unjoined(room, nick) == ~Truthy(room) \/ ~Truthy(nick)

\* Variant of NewMessageRecipients: socket.to(currentRoom), without the sender.
NewMessageRecipients_ExceptSender(ad, room, c) == ToRoomExceptSelf(ad, room, c)

\* The recipients of a new-message: io.to(currentRoom).
NewMessageRecipients(ad, room, c) == ToRoom(ad, room, c)

\* socket.on('send-message', data)
SendMessage(c, data) ==
  /\ Handles(c)
  /\ IF Unjoined(currentRoom[c], currentNickname[c])
     THEN /\ out' = <<>>
          /\ last' = Before("send-message", c, "")
     ELSE IF data.t # "object" \/ data.content.t # "string"
     THEN \* data.content or data.content.substring raises a TypeError
          /\ out' = <<>>
          /\ last' = [BeforeSend("send-message", c, data) EXCEPT !.threw = TRUE]
     ELSE /\ out' = << Emit("new-message",
                            NewMessageRecipients(adapter, currentRoom[c].v, c),
                            [type |-> "text", content |-> data.content.v,
                             nickname |-> currentNickname[c].v]) >>
          /\ last' = BeforeSend("send-message", c, data)
  /\ UNCHANGED <<conn, currentRoom, currentNickname, rooms, adapter, joins, lastJoin,
                 lastAssigned>>
  /\ UNCHANGED <<storeVars, otherVars>>

\* Variant of voiceMessage: the url is derived from the message id.
voiceMessage_UrlFromId(data, nickname) ==
  [type |-> "voice", id |-> data.messageId.v, url |-> voiceUrl(data.messageId.v),
   nickname |-> nickname]

\* const message = { id: data.messageId, type: 'voice', url: data.url, ... }
voiceMessage(data, nickname) ==
  [type |-> "voice", id |-> data.messageId.v, url |-> data.url.v,
   nickname |-> nickname]

\* Variant of storeAfterSend: the broadcast consumes the record of the clip.
storeAfterSend_Consume(vm, data) ==
  SelectSeq(vm, LAMBDA e : e.key # data.messageId.v)

\* The voice store after a send-voice: the handler relays the payload and
\* calls nothing of the storage module.
storeAfterSend(vm, data) == vm

\* socket.on('send-voice', data)
SendVoice(c, data) ==
  /\ Handles(c)
  /\ IF Unjoined(currentRoom[c], currentNickname[c])
     THEN /\ out' = <<>>
          /\ last' = Before("send-voice", c, "")
     ELSE IF data.t # "object"
     THEN \* data.messageId raises a TypeError
          /\ out' = <<>>
          /\ last' = [BeforeSend("send-voice", c, data) EXCEPT !.threw = TRUE]
     ELSE /\ out' = << Emit("new-message",
                            NewMessageRecipients(adapter, currentRoom[c].v, c),
                            voiceMessage(data, currentNickname[c].v)) >>
          /\ last' = BeforeSend("send-voice", c, data)
  /\ voiceMessages' = storeAfterSend(voiceMessages, data)
  /\ UNCHANGED <<conn, currentRoom, currentNickname, rooms, adapter, joins, lastJoin,
                 lastAssigned>>
  /\ UNCHANGED <<now, ticks, sop, gone, nickCall>>

\* Variant of InRoomAtDisconnect: the leave is done without any test.
InRoomAtDisconnect_Always(room, nick) == TRUE

\* if (currentRoom && currentNickname) of the disconnect handler.
InRoomAtDisconnect(room, nick) == Truthy(room) /\ Truthy(nick)

\* socket.on('disconnect')
Disconnect(c) ==
  /\ Handles(c)
  /\ conn' = [conn EXCEPT ![c] = "closed"]
  /\ adapter' = socketLeaveAll(adapter, c)
  /\ IF InRoomAtDisconnect(currentRoom[c], currentNickname[c])
     THEN /\ rooms' = removeUserFromRoom(rooms, currentRoom[c].v, c)
          /\ out' = << Emit("user-left",
                            ToRoomExceptSelf(adapter', currentRoom[c].v, c),
                            currentNickname[c].v) >>
     ELSE /\ rooms' = rooms
          /\ out' = <<>>
  /\ last' = [Before("disconnect", c, "")
              EXCEPT !.roomsAtEmit = RegistryAtEmit(rooms, rooms')]
  /\ UNCHANGED <<currentRoom, currentNickname, joins, lastJoin, lastAssigned, posted>>
  /\ UNCHANGED <<storeVars, otherVars>>

Next ==
  \/ \E c \in Conns : Connect(c) /\ UNCHANGED clients
  \/ \E c \in Conns, roomId \in RoomIds, r \in RandSamples :
       JoinRoom(c, roomId, r[1], r[2]) /\ UNCHANGED clients
  \/ \E c \in Conns, data \in TextPayloads :
       SendMessage(c, data) /\ UNCHANGED <<posted, clients>>
  \/ \E c \in Conns, data \in VoicePayloads :
       SendVoice(c, data) /\ UNCHANGED <<posted, clients, recorder>>
  \/ \E c \in Conns : Disconnect(c) /\ UNCHANGED clients

Spec == Init /\ [][Next]_vars

\* ------------------------------------------------------ voice store actions
\* Time passes.
Tick(d) ==
  /\ ticks < MaxTicks
  /\ now' = now + d
  /\ ticks' = ticks + 1
  /\ sop' = StoreOp("tick", "", <<>>, "", UNDEFINED, 0)
  /\ UNCHANGED <<voiceMessages, gone>>
  /\ UNCHANGED <<roomVars, otherVars, clients>>

\* A new record fits: its id is stored already or the bound is not reached.
Fits(id) == mapHas(voiceMessages, id) \/ Len(voiceMessages) < MaxRecords

\* A call of storeVoiceMessage(messageId, buffer, mimeType).
Put(messageId, buffer, mimeType) ==
  /\ Fits(messageId)
  /\ voiceMessages' = storeVoiceMessage(voiceMessages, messageId, buffer, mimeType, now)
  /\ sop' = StoreOp("put", messageId, buffer, mimeType, UNDEFINED, 0)
  /\ UNCHANGED <<now, ticks>>
  /\ UNCHANGED <<roomVars, otherVars, clients>>

\* A call of getVoiceMessage(messageId).
Get(messageId) ==
  /\ voiceMessages' = storeAfterGet(voiceMessages, messageId, now)
  /\ sop' = StoreOp("get", messageId, <<>>, "",
                    getVoiceMessage(voiceMessages, messageId), 0)
  /\ UNCHANGED <<now, ticks, gone>>
  /\ UNCHANGED <<roomVars, otherVars, clients>>

\* A call of cleanupOldMessages(), by the hourly timer or by a caller.
Sweep ==
  /\ LET res == cleanupOldMessages(voiceMessages, now)
     IN /\ voiceMessages' = res.store
        /\ sop' = StoreOp("sweep", "", <<>>, "", res, res.deletedCount)
  /\ UNCHANGED <<now, ticks>>
  /\ UNCHANGED <<roomVars, otherVars, clients>>

\* app.post('/upload-voice') behind upload.single('audio'): req.file is the
\* file multer accepted, if any.
UploadVoice(file, suffix) ==
  /\ LET messageId == uploadMessageId(now, suffix)
         stored == multerAccepts(file) /\ file.present
     IN /\ stored => Fits(messageId)
        /\ voiceMessages' =
             IF stored
             THEN storeVoiceMessage(voiceMessages, messageId, file.buffer,
                                    file.mimetype, now)
             ELSE voiceMessages
        /\ sop' = [StoreOp("upload", messageId, file.buffer, file.mimetype,
                           IF multerAccepts(file) THEN uploadReply(file, messageId)
                           ELSE multerReject, 0)
                   EXCEPT !.file = file]
  /\ UNCHANGED <<now, ticks>>
  /\ UNCHANGED <<roomVars, nickCall, clients>>

\* app.get('/voice/:messageId') for the url of a message id.
RetrieveVoice(url) ==
  /\ LET messageId == routeParam(url, RequestIds)
     IN /\ voiceMessages' = storeAfterGet(voiceMessages, messageId, now)
        /\ sop' = StoreOp("retrieve", messageId, <<>>, "",
                          retrieveReply(getVoiceMessage(voiceMessages, messageId)), 0)
  /\ UNCHANGED <<now, ticks, gone>>
  /\ UNCHANGED <<roomVars, otherVars, clients>>

StoreNext ==
  \/ \E d \in TickSteps : Tick(d)
  \/ \E id \in CallerIds, b \in Buffers, m \in MimeTypes :
       Put(id, b, m) /\ UNCHANGED gone
  \/ \E id \in RequestIds : Get(id)
  \/ Sweep /\ UNCHANGED gone
  \/ \E f \in SmallFiles, x \in RandSuffixes : UploadVoice(f, x) /\ UNCHANGED <<gone, recorder>>
  \/ \E id \in RequestIds : RetrieveVoice(voiceUrl(id))

StoreSpec == Init /\ [][StoreNext]_vars

\* ------------------------------------------------------------ HTTP server
\* The ids that are gone after a step: deleted by it, or before and not stored.
GoneAfter == (gone \cup (Keys(voiceMessages) \ Keys(voiceMessages'))) \ Keys(voiceMessages')

\* The store as the server runs it: records come from uploads only, the timer
\* sweeps, and requests read.
HttpNext ==
  \/ \E d \in TickSteps : Tick(d)
  \/ Sweep /\ gone' = GoneAfter
  \/ \E f \in Files, x \in RandSuffixes :
       UploadVoice(f, x) /\ gone' = GoneAfter /\ UNCHANGED recorder
  \/ \E id \in RequestIds : Get(id)
  \/ \E id \in RequestIds : RetrieveVoice(voiceUrl(id))

HttpSpec == Init /\ [][HttpNext]_vars

\* ------------------------------------------------------------ hourly timer
\* The time at which the interval timer fires next after time t: the timer is
\* set when the module loads, at time 0, and fires every sweepPeriod.
nextSweep(t) == ((t \div sweepPeriod) + 1) * sweepPeriod

\* The times followed between two firings: just after the last one and just
\* before the next one.
ElapseTimes(t) == {t - (t % sweepPeriod) + 1, nextSweep(t) - 1}

\* Time passes up to time t, before the next firing of the timer.
Elapse(t) ==
  /\ now < t
  /\ t < nextSweep(now)
  /\ now' = t
  /\ sop' = StoreOp("tick", "", <<>>, "", UNDEFINED, 0)
  /\ UNCHANGED <<voiceMessages, ticks, gone>>
  /\ UNCHANGED <<roomVars, otherVars, clients>>

\* The interval timer fires: cleanupOldMessages() runs at the time it is due.
TimerFires ==
  /\ now < MaxHours * sweepPeriod
  /\ now' = nextSweep(now)
  /\ LET res == cleanupOldMessages(voiceMessages, now')
     IN /\ voiceMessages' = res.store
        /\ sop' = StoreOp("timer", "", <<>>, "", res, res.deletedCount)
  /\ UNCHANGED ticks
  /\ UNCHANGED <<roomVars, otherVars, clients>>

\* The store under the timer alone: one upload at a time, requests read, and
\* nothing sweeps but the timer.
TimerNext ==
  \/ \E t \in ElapseTimes(now) : Elapse(t)
  \/ TimerFires /\ UNCHANGED gone
  \/ \E f \in SmallFiles, x \in RandSuffixes :
       voiceMessages = <<>> /\ UploadVoice(f, x) /\ UNCHANGED <<gone, recorder>>
  \/ \E id \in RequestIds : Get(id)

TimerSpec == Init /\ [][TimerNext]_vars

\* ------------------------------------------------ router beside the store
\* Two sockets, one room and one nickname draw, beside the HTTP server.
PairConns == {"s1", "s2"}
OneDraw == <<0, 0>>

\* send-voice payloads of a client: the id and url of an upload reply, an id
\* that was never uploaded, and a url that is not the one of the id.
UploadedId == uploadMessageId(0, CHOOSE x \in RandSuffixes : TRUE)
ClientVoicePayloads ==
  { [t |-> "object", messageId |-> Str(UploadedId), url |-> Str(voiceUrl(UploadedId))],
    [t |-> "object", messageId |-> Str("voice-1"), url |-> Str(voiceUrl("voice-1"))],
    [t |-> "object", messageId |-> Str("voice-1"), url |-> Str(voiceUrl(UploadedId))] }

MixNext ==
  \/ \E c \in PairConns : Connect(c) /\ UNCHANGED clients
  \/ \E c \in PairConns :
       JoinRoom(c, "r1", OneDraw[1], OneDraw[2]) /\ UNCHANGED clients
  \/ \E c \in PairConns, data \in ClientVoicePayloads :
       SendVoice(c, data) /\ UNCHANGED <<posted, clients, recorder>>
  \/ \E c \in PairConns : Disconnect(c) /\ UNCHANGED clients
  \/ \E d \in TickSteps : Tick(d)
  \/ \E f \in SmallFiles, x \in RandSuffixes : UploadVoice(f, x) /\ UNCHANGED <<gone, recorder>>
  \/ Sweep /\ UNCHANGED gone

MixSpec == Init /\ [][MixNext]_vars

\* ---------------------------------------------- handlers beside the store
\* The send handlers of two sockets beside the operations of the store.
FrameNext ==
  \/ \E c \in PairConns : Connect(c) /\ UNCHANGED clients
  \/ \E c \in PairConns :
       JoinRoom(c, "r1", OneDraw[1], OneDraw[2]) /\ UNCHANGED clients
  \/ \E c \in PairConns, data \in TextPayloads :
       SendMessage(c, data) /\ UNCHANGED <<posted, clients>>
  \/ \E c \in PairConns, data \in ClientVoicePayloads :
       SendVoice(c, data) /\ UNCHANGED <<posted, clients, recorder>>
  \/ \E d \in TickSteps : Tick(d)
  \/ \E id \in CallerIds : Put(id, <<9>>, "audio/webm") /\ UNCHANGED gone
  \/ \E id \in RequestIds : Get(id)
  \/ Sweep /\ UNCHANGED gone

FrameSpec == Init /\ [][FrameNext]_vars

\* ------------------------------------------------- rooms with a history
\* The rooms a new-message was broadcast to, after a send handler of socket c.
PostedAfter(c) == IF out' # <<>> THEN posted \cup {currentRoom[c].v} ELSE posted

ReplayNext ==
  \/ \E c \in PairConns : Connect(c) /\ UNCHANGED clients
  \/ \E c \in PairConns, roomId \in RoomIds :
       JoinRoom(c, roomId, OneDraw[1], OneDraw[2]) /\ UNCHANGED clients
  \/ \E c \in PairConns, data \in TextPayloads :
       SendMessage(c, data) /\ posted' = PostedAfter(c) /\ UNCHANGED clients
  \/ \E c \in PairConns, data \in VoicePayloads :
       SendVoice(c, data) /\ posted' = PostedAfter(c)
         /\ UNCHANGED <<clients, recorder>>
  \/ \E c \in PairConns : Disconnect(c) /\ UNCHANGED clients

ReplaySpec == Init /\ [][ReplayNext]_vars

\* ------------------------------------------------------------- clients
\* The handlers useSocket registers: setNickname, setParticipants.
clientOn(cl, e) ==
  IF e.event = "nickname-assigned" THEN [cl EXCEPT !.nickname = Str(e.data)]
  ELSE IF e.event = "participants-list" THEN [cl EXCEPT !.participants = e.data]
  ELSE IF e.event = "user-joined"
  THEN [cl EXCEPT !.participants = Append(cl.participants, e.data)]
  ELSE IF e.event = "user-left"
  THEN [cl EXCEPT !.participants = SelectSeq(@, LAMBDA p : p # e.data)]
  ELSE cl

\* History of what a client was told: the entries behind a participants-list
\* of registry rms for room roomId, and the socket behind a user-joined.
presenceOn(cl, e, c, roomId, rms) ==
  IF e.event = "participants-list"
  THEN [cl EXCEPT !.listed = {<<RoomEntries(rms, roomId)[i].socketId,
                               RoomEntries(rms, roomId)[i].nickname>> :
                                i \in 1..Len(RoomEntries(rms, roomId))},
                  !.joined = {}]
  ELSE IF e.event = "user-joined"
  THEN [cl EXCEPT !.joined = @ \cup {<<c, e.data>>}]
  ELSE cl

\* Client x after the events of es, from position i on, that go to it.
RECURSIVE Receive(_, _, _, _, _, _, _)
Receive(cl, x, es, i, c, roomId, rms) ==
  IF i > Len(es) THEN cl
  ELSE Receive(IF x \in es[i].to
               THEN presenceOn(clientOn(cl, es[i]), es[i], c, roomId, rms)
               ELSE cl,
               x, es, i + 1, c, roomId, rms)

\* The clients once the events of the handler that runs now are delivered.
ClientsAfter(c, roomId) ==
  [x \in Conns |-> Receive(clients[x], x, out', 1, c, roomId, rooms')]

PresenceNext ==
  \/ \E c \in PairConns : Connect(c) /\ clients' = ClientsAfter(c, "")
  \/ \E c \in PairConns, roomId \in RoomIds, r \in RandSamples :
       JoinRoom(c, roomId, r[1], r[2]) /\ clients' = ClientsAfter(c, roomId)
  \/ \E c \in PairConns : Disconnect(c) /\ clients' = ClientsAfter(c, "")

PresenceSpec == Init /\ [][PresenceNext]_vars

\* ------------------------------------------------------ nickname generator
\* Values of Math.random(), as numerators over RandDen: around the places
\* where the prefix changes, and at both ends of the range.
PrefixDraws ==
  {k \in 0..(RandDen - 1) :
     \E i \in 0..Len(prefixes), d \in {-1, 0, 1} : k = (i * RandDen) \div Len(prefixes) + d}
NumberDraws == (0..EdgeDraws) \cup ((RandDen - 1 - EdgeDraws)..(RandDen - 1))

\* A call of generateNickname().
Generate(rp, rn) ==
  /\ nickCall' = Call(rp, rn, generateNickname(rp, rn))
  /\ UNCHANGED <<roomVars, storeVars, clients, recorder>>

NickNext == \E rp \in PrefixDraws, rn \in NumberDraws : Generate(rp, rn)

NickSpec == Init /\ [][NickNext]_vars

\* --------------------------------------------------------- voice recorder
\* The client whose page holds the recorder, and the room it joins.
RecClient == "s1"

\* The Blob of a clip as the file of the upload request: within the size
\* limit of the server or beyond it.
ClipFiles == {f \in Files : f.present /\ f.size # fileSizeLimit}

\* disabled={disabled || isUploading}, with disabled={!connected} of the page.
ButtonEnabled == conn[RecClient] = "connected" /\ ~recorder.isUploading

\* An upload is in flight: fetch was called and has not settled.
Uploading(s) == recorder.phase[s] \in {"uploading", "replied"}

\* Between the upload of a clip and the handling of its send-voice.
InFlight(s) == recorder.phase[s] \in {"replied", "emitted"}

RecorderStep == UNCHANGED <<roomVars, storeVars, nickCall, clients>>

\* The recorder once the clip of session s is dealt with: its locals are gone.
Settled(rec, s) ==
  [rec EXCEPT !.phase[s] = "done", !.clip[s] = <<>>, !.reply[s] = NoReply,
              !.sent[s] = UNDEFINED]

\* handleClick while not recording: startRecording() up to its await of
\* getUserMedia.
startRecording(s) ==
  /\ ButtonEnabled
  /\ ~recorder.isRecording
  /\ recorder.phase[s] = "idle"
  /\ \A t \in Sessions : t < s => recorder.phase[t] # "idle"
  /\ recorder' = [recorder EXCEPT !.phase[s] = "asking"]
  /\ RecorderStep

\* getUserMedia resolves: the rest of startRecording() resets the shared
\* buffer, stores the new MediaRecorder in the ref and starts it.
getUserMediaResolves(s) ==
  /\ recorder.phase[s] = "asking"
  /\ recorder' = [recorder EXCEPT !.audioChunks = <<>>,
                                  !.mediaRecorder = s,
                                  !.phase[s] = "recording",
                                  !.isRecording = TRUE]
  /\ RecorderStep

\* getUserMedia rejects: the catch of startRecording().
getUserMediaRejects(s) ==
  /\ recorder.phase[s] = "asking"
  /\ recorder' = [recorder EXCEPT !.phase[s] = "failed"]
  /\ RecorderStep

\* handleClick while recording: stopRecording() stops the recorder of the ref;
\* its dataavailable and stop events are fired by a task queued for later.
stopRecording ==
  /\ ButtonEnabled
  /\ recorder.isRecording
  /\ recorder.mediaRecorder # 0
  /\ recorder.phase[recorder.mediaRecorder] = "recording"
  /\ recorder' = [recorder EXCEPT !.phase[recorder.mediaRecorder] = "stopping",
                                  !.isRecording = FALSE]
  /\ RecorderStep

\* The task of a stopped recorder: ondataavailable pushes its chunk to the
\* shared buffer, onstop assembles the Blob from the buffer and calls
\* uploadVoiceMessage, which sets isUploading and posts the clip.
onstop(s) ==
  /\ recorder.phase[s] = "stopping"
  /\ LET chunks == Append(recorder.audioChunks, s)
     IN recorder' = [recorder EXCEPT !.audioChunks = chunks,
                                     !.clip[s] = chunks,
                                     !.isUploading = TRUE,
                                     !.phase[s] = "uploading"]
  /\ RecorderStep

\* The server handles the POST /upload-voice of a clip; its reply is on the way.
ServeUpload(s, file, suffix) ==
  /\ recorder.phase[s] = "uploading"
  /\ UploadVoice(file, suffix)
  /\ recorder' = [recorder EXCEPT !.reply[s] = sop'.result,
                                  !.phase[s] = "replied"]
  /\ UNCHANGED gone

\* fetch rejects (the request or its reply is lost): catch and finally.
fetchRejects(s) ==
  /\ Uploading(s)
  /\ recorder' = Settled([recorder EXCEPT !.isUploading = FALSE], s)
  /\ RecorderStep

\* Variant of responseOk: the status of the reply is not looked at.
responseOk_Always(reply) == TRUE

\* response.ok
responseOk(reply) == reply.status >= 200 /\ reply.status <= 299

\* A field of the JSON body of a reply: the error bodies have no messageId
\* and no url.
replyField(reply, v) == IF reply.status = 200 THEN Str(v) ELSE UNDEFINED

\* { messageId, url, duration } of sendVoice
sendVoicePayload(reply) ==
  [t |-> "object", messageId |-> replyField(reply, reply.messageId),
   url |-> replyField(reply, reply.url)]

\* The reply of the upload arrives: uploadVoiceMessage goes on after its
\* await, calls onSendVoice for a reply that is ok, and sendVoice of useSocket
\* emits send-voice if (socket && connected).
uploadReplied(s) ==
  /\ recorder.phase[s] = "replied"
  /\ IF responseOk(recorder.reply[s]) /\ conn[RecClient] = "connected"
     THEN recorder' = [recorder EXCEPT !.isUploading = FALSE,
                                       !.sent[s] = sendVoicePayload(recorder.reply[s]),
                                       !.phase[s] = "emitted"]
     ELSE recorder' = Settled([recorder EXCEPT !.isUploading = FALSE], s)
  /\ RecorderStep

\* The send-voice of a clip reaches the router.
HandleVoice(s) ==
  /\ recorder.phase[s] = "emitted"
  /\ SendVoice(RecClient, recorder.sent[s])
  /\ recorder' = Settled(recorder, s)
  /\ UNCHANGED <<posted, clients>>

\* The recorder of one client beside the server: the client connects, joins
\* its room and leaves, the clock runs and the store is swept. A day passes only while
\* no reply and no send-voice is on its way.
VoiceNext ==
  \/ Connect(RecClient) /\ UNCHANGED clients
  \/ /\ currentRoom[RecClient] = NULL
     /\ JoinRoom(RecClient, "r1", OneDraw[1], OneDraw[2]) /\ UNCHANGED clients
  \/ Disconnect(RecClient) /\ UNCHANGED clients
  \/ \E s \in Sessions : startRecording(s)
  \/ \E s \in Sessions : getUserMediaResolves(s)
  \/ \E s \in Sessions : getUserMediaRejects(s)
  \/ stopRecording
  \/ \E s \in Sessions : onstop(s)
  \/ \E s \in Sessions, f \in ClipFiles, x \in RandSuffixes : ServeUpload(s, f, x)
  \/ \E s \in Sessions : fetchRejects(s)
  \/ \E s \in Sessions : uploadReplied(s)
  \/ \E s \in Sessions : HandleVoice(s)
  \/ \E d \in TickSteps :
       /\ d < maxAge \/ \A s \in Sessions : ~InFlight(s)
       /\ Tick(d)
  \/ Sweep /\ UNCHANGED gone

VoiceSpec == Init /\ [][VoiceNext]_vars

\* ----------------------------------------------------- claim vocabulary
\* Positions of the entries of socket c in room r of a registry.
EntriesOf(rms, r, c) ==
  IF r \in DOMAIN rms THEN {i \in 1..Len(rms[r]) : rms[r][i].socketId = c} ELSE {}

\* Sockets that have a member entry in room r.
Members(rms, r) ==
  IF r \in DOMAIN rms THEN {rms[r][i].socketId : i \in 1..Len(rms[r])} ELSE {}

\* Rooms in which socket c has a member entry.
RoomsOf(rms, c) == {r \in DOMAIN rms : EntriesOf(rms, r, c) # {}}

\* Size of the participants snapshot of room r, 0 when r does not exist.
SizeOf(rms, r) == Len(participants(rms, r))

\* Positions in out of the events named ev that are delivered to socket m.
Delivered(ev, m) == {i \in 1..Len(out) : out[i].event = ev /\ m \in out[i].to}

\* Positions in out of the events named ev.
Emitted(ev) == {i \in 1..Len(out) : out[i].event = ev}

\* The member entries of socket c, as <<room, position>> pairs.
AllEntriesOf(rms, c) ==
  UNION {{<<r, i>> : i \in EntriesOf(rms, r, c)} : r \in DOMAIN rms}

\* The handler that ran last was a send-message or a send-voice.
LastIsSend == last.op \in {"send-message", "send-voice"}

\* The connection of the last handler had joined some room before it ran.
WasInRoom == last.room0.t = "string"

\* The entries of room q that are not entries of socket c.
OthersIn(rms, q, c) == SelectSeq(RoomEntries(rms, q), LAMBDA e : e.socketId # c)

\* The rooms a join-room or disconnect of the last handler may write: the
\* room joined and the room the connection was in.
Touched(l) ==
  (IF l.op = "join-room" THEN {l.roomId} ELSE {})
    \cup (IF l.room0.t = "string" THEN {l.room0.v} ELSE {})

\* How often v occurs in the sequence.
Count(seq, v) == Cardinality({i \in 1..Len(seq) : seq[i] = v})

\* The two sequences hold the same values, each as often.
SameMultiset(a, b) ==
  /\ Len(a) = Len(b)
  /\ \A i \in 1..Len(a) : Count(a, a[i]) = Count(b, a[i])

\* The events that belong to one room.
RoomScoped == {"new-message", "user-joined", "user-left"}

\* The room the events of the last handler originate in: the room joined, or
\* the room the connection was in when it sent or disconnected.
OriginRoom == IF last.op = "join-room" THEN Str(last.roomId) ELSE last.room0

\* --------------------------------------------------------------- claims
\* C1: after a connection disconnects, no room of the registry holds a
\* member entry for it, whatever string room identifiers it joined.
C1_NoDanglingMember ==
  \A c \in Conns : conn[c] = "closed" => RoomsOf(rooms, c) = {}

\* C2: when a connection that is in room A with identity idA joins a room,
\* every remaining member of A receives exactly one user-left carrying idA
\* and the joining connection receives no user-left.
C2_SwitchNotifiesOldRoom ==
  (last.op = "join-room" /\ WasInRoom) =>
    /\ \A m \in Members(last.rooms0, last.room0.v) \ {last.socketId} :
         Cardinality({i \in Delivered("user-left", m) : out[i].data = last.nick0.v}) = 1
    /\ Delivered("user-left", last.socketId) = {}

\* C3: after join(A) followed by join(B) on one connection, the connection
\* has a member entry in room B and in no other room, so no later snapshot
\* of room A lists it.
C3_SwitchEndsInNewRoomOnly ==
  (last.op = "join-room" /\ WasInRoom) =>
    RoomsOf(rooms, last.socketId) = {last.roomId}

\* C4: every connection has at most one member entry in any single room and
\* member entries in at most one room.
C4_MemberUniqueness ==
  \A c \in Conns :
    /\ \A r \in DOMAIN rooms : Cardinality(EntriesOf(rooms, r, c)) <= 1
    /\ Cardinality(RoomsOf(rooms, c)) <= 1

\* C5: for every room identifier r, the size of the participants snapshot of
\* r equals the number of connected connections whose latest join was join(r).
C5_SizeMatchesLastJoins ==
  \A r \in RoomIds :
    SizeOf(rooms, r) =
      Cardinality({c \in Conns : conn[c] = "connected" /\ lastJoin[c] = Str(r)})

\* C6: one join emits nickname-assigned to the joiner, then user-joined,
\* then participants-list to the joiner; the joiner never gets the list
\* before its nickname.
C6_JoinEmitOrder ==
  last.op = "join-room" =>
    /\ \E i \in Delivered("nickname-assigned", last.socketId) :
       \E j \in Emitted("user-joined") :
       \E k \in Delivered("participants-list", last.socketId) : i < j /\ j < k
    /\ \A k \in Delivered("participants-list", last.socketId) :
       \E i \in Delivered("nickname-assigned", last.socketId) : i < k
    /\ \A j \in Emitted("user-joined") :
         /\ \A i \in Emitted("nickname-assigned") : i < j
         /\ \A k \in Emitted("participants-list") : j < k

C6_Witness ==
  /\ last.op = "join-room"
  /\ \E j \in Emitted("user-joined") : out[j].to # {}

C8_JoinFanOut ==
  last.op = "join-room" =>
    /\ \A m \in Members(rooms, last.roomId) \ {last.socketId} :
         Cardinality(Delivered("user-joined", m)) = 1
    /\ Delivered("user-joined", last.socketId) = {}
    /\ \A i \in Emitted("nickname-assigned") \cup Emitted("participants-list") :
         out[i].to = {last.socketId}
    /\ Cardinality(Emitted("nickname-assigned")) = 1
    /\ Cardinality(Emitted("participants-list")) = 1

\* C9: when a connection in room r with identity id disconnects, its member
\* entry is removed from r, every remaining member of r receives exactly one
\* user-left carrying id, and the disconnecting connection receives nothing.
C9_DisconnectLeavesRoom ==
  (last.op = "disconnect" /\ WasInRoom) =>
    /\ last.socketId \notin Members(rooms, last.room0.v)
    /\ \A m \in Members(rooms, last.room0.v) \ {last.socketId} :
         Cardinality({i \in Delivered("user-left", m) : out[i].data = last.nick0.v}) = 1
    /\ \A i \in 1..Len(out) : last.socketId \notin out[i].to

\* C10: send-message or send-voice on a connection that has never joined
\* emits no event and leaves the room registry unchanged.
C10_UnjoinedSendDropped ==
  (LastIsSend /\ last.room0 = NULL) =>
    /\ out = <<>>
    /\ rooms = last.rooms0

C10_Witness ==
  /\ LastIsSend
  /\ last.room0 = NULL
  /\ DOMAIN rooms # {}

\* C11: a disconnect of a connection that has never joined emits no event
\* and leaves the room registry unchanged.
C11_UnjoinedDisconnectNoOp ==
  (last.op = "disconnect" /\ last.room0 = NULL) =>
    /\ out = <<>>
    /\ rooms = last.rooms0

C11_Witness ==
  /\ last.op = "disconnect"
  /\ last.room0 = NULL
  /\ DOMAIN rooms # {}

LiveBefore(r) ==
  {d \in Conns :
     /\ conn[d] = "connected"
     /\ (IF d = last.socketId THEN last.room0 ELSE lastJoin[d]) = Str(r)}

\* C13: after the last member of room r has left, the next join(r) receives
\* a participants-list of exactly one identity, the joiner's new one.  The
\* room has no member left when no connected connection has join(r) as its
\* latest join; a list with a further identity can only stem from an earlier
\* join(r), so the case "r was never joined" cannot violate the formula.
C13_FreshRoomAfterLastLeave ==
  (last.op = "join-room" /\ LiveBefore(last.roomId) = {}) =>
    \A k \in Delivered("participants-list", last.socketId) :
      out[k].data = << currentNickname[last.socketId].v >>

\* ----------------------------------------------- voice store vocabulary
\* Age at time t of the record stored in entry e.
Age(e, t) == t - e.value.timestamp

\* Number of records the last sweep took out of the Map.
Removed == Len(sop.store0) - Len(voiceMessages)

C15_SweepRemovesExpired ==
  sop.op = "sweep" =>
    /\ \A i \in 1..Len(voiceMessages) : ~(Age(voiceMessages[i], now) > maxAge)
    /\ \A i \in 1..Len(sop.store0) :
         Age(sop.store0[i], sop.now0) > maxAge =>
           getVoiceMessage(voiceMessages, sop.store0[i].key) = NULL

C15_Witness ==
  /\ sop.op = "sweep"
  /\ \E i \in 1..Len(sop.store0) : Age(sop.store0[i], sop.now0) > maxAge
  /\ \E i \in 1..Len(sop.store0) : Age(sop.store0[i], sop.now0) < maxAge

\* C16: a sweep neither removes nor alters a record whose age is at most 24
\* hours (exactly 24 hours included): get returns it unchanged afterwards.
C16_SweepKeepsYoung ==
  sop.op = "sweep" =>
    \A i \in 1..Len(sop.store0) :
      Age(sop.store0[i], sop.now0) <= maxAge =>
        getVoiceMessage(voiceMessages, sop.store0[i].key) = sop.store0[i].value

C16_Witness ==
  /\ sop.op = "sweep"
  /\ \E i \in 1..Len(sop.store0) : Age(sop.store0[i], sop.now0) = maxAge
  /\ \E i \in 1..Len(sop.store0) : Age(sop.store0[i], sop.now0) > maxAge

\* C17: a second sweep right after a sweep (same clock, no put between)
\* removes zero records and leaves the store as the first sweep left it.
C17_SweepIdempotent ==
  sop.op = "sweep" =>
    LET again == cleanupOldMessages(voiceMessages, now)
    IN /\ again.deletedCount = 0
       /\ again.store = voiceMessages

C17_Witness ==
  /\ sop.op = "sweep"
  /\ Removed >= 2

\* C18 as stated: sweep() returns the number of records it removed.
C18_SweepReturnsCount ==
  sop.op = "sweep" =>
    /\ sop.result.returned.t = "number"
    /\ sop.result.returned.v = Removed

\* C18 amended: sweep() returns undefined; its counter deletedCount equals
\* the number of records removed in that call and is logged when positive.
C18_SweepCountsRemoved ==
  sop.op = "sweep" =>
    /\ sop.result.returned = UNDEFINED
    /\ sop.result.deletedCount = Removed
    /\ sop.result.logged <=> Removed > 0

C18_Witness ==
  /\ sop.op = "sweep"
  /\ sop.result.logged
  /\ Len(voiceMessages) >= 1

\* C19: get(id), and the retrieval endpoint that calls it, leave the store
\* unchanged; no timestamp is refreshed by a read.
C19_GetIsPure ==
  sop.op \in {"get", "retrieve"} => voiceMessages = sop.store0

C19_Witness ==
  /\ sop.op = "get"
  /\ sop.result.t = "object"
  /\ sop.result.timestamp < now

\* C20: put on an id that already has a record replaces it: get returns the
\* bytes and type of the latest put, the timestamp is the time of that put,
\* and the store holds exactly one record for the id.
C20_PutReplaces ==
  (sop.op = "put" /\ mapHas(sop.store0, sop.id)) =>
    LET rec == getVoiceMessage(voiceMessages, sop.id)
    IN /\ rec.t = "object"
       /\ rec.buffer = sop.buffer
       /\ rec.mimeType = sop.mimeType
       /\ rec.timestamp = sop.now0
       /\ Cardinality(KeyPositions(voiceMessages, sop.id)) = 1
       /\ Len(voiceMessages) = Len(sop.store0)

C20_Witness ==
  /\ sop.op = "put"
  /\ mapHas(sop.store0, sop.id)
  /\ mapGet(sop.store0, sop.id).buffer # sop.buffer
  /\ mapGet(sop.store0, sop.id).timestamp < now

\* C21: the new-message of a send-voice handled in a room has the message id
\* the caller sent as its id and carries the url the caller sent; it goes to
\* the whole room whether or not the voice store holds a record of that id,
\* and the handler leaves the store as it is.
C21_VoiceRelayedUnchecked ==
  (last.op = "send-voice" /\ ~Unjoined(last.room0, last.nick0)
     /\ last.data.t = "object") =>
    /\ Len(out) = 1
    /\ out[1].event = "new-message"
    /\ out[1].data.type = "voice"
    /\ out[1].data.id = last.data.messageId.v
    /\ out[1].data.url = last.data.url.v
    /\ out[1].to = adapter[last.room0.v]

C21_Witness ==
  /\ last.op = "send-voice"
  /\ Emitted("new-message") # {}
  /\ voiceMessages # <<>>
  /\ ~mapHas(voiceMessages, out[1].data.id)
  /\ out[1].data.url # voiceUrl(out[1].data.id)
  /\ out[1].to = PairConns

\* C22: every join-room, a rejoin of the same room included, sends the joiner
\* a newly generated nickname; from then on the connection's closure holds
\* that nickname, every new-message it sends names it as the author, and the
\* registry holds exactly one entry for the connection, with that nickname
\* (no entry with the nickname of an earlier join is left).
C22_AuthorIsLatestIdentity ==
  /\ last.op = "join-room" =>
        /\ out[1].event = "nickname-assigned"
        /\ out[1].to = {last.socketId}
        /\ \E r \in RandSamples : out[1].data = generateNickname(r[1], r[2])
        /\ lastAssigned[last.socketId] = Str(out[1].data)
  /\ \A c \in Conns :
        (conn[c] = "connected" /\ lastAssigned[c] # NULL) =>
          /\ currentNickname[c] = lastAssigned[c]
          /\ Cardinality(AllEntriesOf(rooms, c)) = 1
          /\ \A p \in AllEntriesOf(rooms, c) :
                rooms[p[1]][p[2]].nickname = lastAssigned[c].v
          /\ (LastIsSend /\ last.socketId = c) =>
                \A i \in Emitted("new-message") :
                  out[i].data.nickname = lastAssigned[c].v

C24_NoHistoryReplay ==
  /\ last.op = "join-room" => Emitted("new-message") = {}
  /\ \A i \in Emitted("new-message") :
        /\ LastIsSend
        /\ \A m \in out[i].to :
              /\ m \in last.adapter0[last.room0.v]
              /\ lastJoin[m] = last.room0

C24_Witness ==
  /\ last.op = "join-room"
  /\ last.roomId \in posted
  /\ last.socketId \notin last.adapter0[last.roomId]
  /\ Len(out) = 3
  /\ Delivered("participants-list", last.socketId) # {}

\* C25: rooms are isolated. Whoever is delivered a new-message, user-joined
\* or user-left that originates in room r is a registered member of r and r
\* is the room it joined last: after joining another room a connection gets
\* no more events of a room it joined earlier.
C25_RoomsIsolated ==
  \A i \in 1..Len(out) :
    out[i].event \in RoomScoped =>
      \A m \in out[i].to :
        /\ m \in Members(rooms, OriginRoom.v)
        /\ lastJoin[m] = OriginRoom

\* C26: no inbound event is fatal. In every connection state and for every
\* payload, a payload that is missing or has no string content included, the
\* handler runs to its end without raising an exception: it broadcasts or it
\* drops the event silently.
C26_NoHandlerThrows == ~last.threw

\* C27: get on an id that has no record, because it was never put or because
\* a sweep deleted its record, yields not-found: null from the store
\* function, status 404 from the retrieval endpoint; no error is raised and
\* the store stays as it was.
C27_MissIsNotFound ==
  (sop.op \in {"get", "retrieve"} /\ ~mapHas(sop.store0, sop.id)) =>
    /\ sop.op = "get" => sop.result = NULL
    /\ sop.op = "retrieve" => sop.result.status = 404
    /\ voiceMessages = sop.store0

C27_Witness ==
  /\ sop.op = "get"
  /\ sop.id \in gone
  /\ sop.result = NULL
  /\ voiceMessages # <<>>

\* C28: every record of the store was put by an upload request that carried
\* a file of at most 5 * 1024 * 1024 bytes; an upload request without a file
\* is answered with status 400, one with a larger file is rejected, and both
\* leave the store unchanged.
C28_OnlyAcceptedUploadsStored ==
  /\ \A i \in 1..Len(voiceMessages) :
        mapGet(sop.store0, voiceMessages[i].key) # voiceMessages[i].value =>
          /\ sop.op = "upload"
          /\ sop.id = voiceMessages[i].key
          /\ sop.file.present
          /\ sop.file.size <= 5 * 1024 * 1024
          /\ voiceMessages[i].value.buffer = sop.file.buffer
          /\ sop.result.status = 200
  /\ (sop.op = "upload" /\ ~sop.file.present) =>
        /\ sop.result.status = 400
        /\ voiceMessages = sop.store0
  /\ (sop.op = "upload" /\ sop.file.size > 5 * 1024 * 1024) =>
        /\ sop.result.status # 200
        /\ voiceMessages = sop.store0

C28_Witness ==
  /\ sop.op = "upload"
  /\ sop.file.size > 5 * 1024 * 1024
  /\ sop.result.status # 200
  /\ \E i \in 1..Len(voiceMessages) :
        \E f \in Files : /\ f.size = 5 * 1024 * 1024
                         /\ voiceMessages[i].value.buffer = f.buffer

\* C29 as stated: once a connection has disconnected, its session holds no
\* current room and no current nickname.
C29_SessionCleared ==
  \A c \in Conns :
    conn[c] = "closed" => (currentRoom[c] = NULL /\ currentNickname[c] = NULL)

\* C29, amended: a disconnected connection is terminal. Its closure keeps the
\* room and the nickname of its last join, and from then on no handler runs
\* for it, so it causes no emit and no change of the registry.
C29_ClosedIsTerminal ==
  /\ [](\A c \in Conns :
          conn[c] = "closed" =>
            /\ currentRoom[c] = lastJoin[c]
            /\ currentNickname[c] = lastAssigned[c])
  /\ [][\A c \in Conns :
          conn[c] = "closed" =>
            /\ conn'[c] = "closed"
            /\ last' # last => last'.socketId # c]_vars

C29_Witness ==
  \E c \in Conns :
    /\ conn[c] = "closed"
    /\ currentRoom[c] = Str("r1")
    /\ Truthy(currentNickname[c])
    /\ last.op = "join-room"
    /\ last.roomId = "r1"

\* C30: leave is idempotent. removeUserFromRoom for a room that does not
\* exist, or that exists without an entry of the connection, leaves the
\* whole registry unchanged; so doing it twice gives the registry that doing
\* it once gives.
C30_LeaveIdempotent ==
  \A r \in RoomIds \cup {"r0"}, c \in Conns :
    LET once == removeUserFromRoom(rooms, r, c)
    IN /\ c \notin Members(rooms, r) => once = rooms
       /\ removeUserFromRoom(once, r, c) = once

\* C31: join-room and disconnect finish every write of the registry (the
\* removal from the previous room, the insertion into the new room, the
\* removal on disconnect) before their first emit: the registry at the first
\* emit is the registry the handler leaves, the participants-list is the
\* snapshot of that registry, and a user-left is emitted when the entry of
\* the leaving connection is gone from its room.
C31_MutateThenNotify ==
  last.op \in {"join-room", "disconnect"} =>
    /\ last.roomsAtEmit = rooms
    /\ \A i \in Emitted("participants-list") :
          /\ out[i].data = participants(rooms, last.roomId)
          /\ Truthy(last.room0) /\ last.room0.v # last.roomId =>
                EntriesOf(last.roomsAtEmit, last.room0.v, last.socketId) = {}
    /\ \A i \in Emitted("user-left") :
          EntriesOf(last.roomsAtEmit, last.room0.v, last.socketId) = {}

C31_Witness ==
  /\ last.op = "join-room"
  /\ Truthy(last.room0)
  /\ last.room0.v # last.roomId
  /\ Len(last.rooms0[last.room0.v]) > 1
  /\ Emitted("participants-list") # {}
  /\ rooms # last.rooms0

\* C33: the two membership trackers agree in every reachable state: for
\* every room id, the sockets the transport delivers a broadcast to that room
\* to are the sockets that have a member entry for it in the registry.
C33_TrackersAgree == \A r \in RoomIds : adapter[r] = Members(rooms, r)

\* C37: a join-room or a disconnect of connection c writes only the member
\* sets of the room joined and of the room c was in, and only c's entries in
\* them: every other room is unchanged, and so are the entries, the current
\* room and the nickname of every other connection.
C37_JoinDisconnectFrame ==
  [][(joins' # joins \/ conn' # conn) /\ last'.op \in {"join-room", "disconnect"} =>
       LET c == last'.socketId
       IN /\ \A d \in Conns \ {c} :
               /\ currentRoom'[d] = currentRoom[d]
               /\ currentNickname'[d] = currentNickname[d]
          /\ \A q \in RoomIds : OthersIn(rooms', q, c) = OthersIn(rooms, q, c)
          /\ \A q \in RoomIds \ Touched(last') :
               RoomEntries(rooms', q) = RoomEntries(rooms, q)]_vars

C37_Witness ==
  /\ last.op = "disconnect"
  /\ Truthy(last.room0)
  /\ rooms # last.rooms0
  /\ OthersIn(rooms, last.room0.v, last.socketId) # <<>>
  /\ \E q \in DOMAIN rooms \ {last.room0.v} : rooms[q] # <<>>

\* C32: whatever the order in which join-room events of different connections
\* into one room are handled, no join is lost (a connected joiner has an entry
\* in the room it joined last), and presence is complete: of two connections
\* X and Y that both have an entry in the room, X was told Y's current
\* identity either by its participants-list or by a user-joined since then,
\* and not by both.
C32_PresenceComplete ==
  /\ \A c \in Conns :
        (conn[c] = "connected" /\ lastJoin[c] # NULL) =>
          c \in Members(rooms, lastJoin[c].v)
  /\ \A r \in RoomIds, X \in Conns, Y \in Conns :
        (/\ X # Y
         /\ conn[X] = "connected" /\ conn[Y] = "connected"
         /\ X \in Members(rooms, r) /\ Y \in Members(rooms, r)) =>
          LET id == <<Y, currentNickname[Y].v>>
          IN (id \in clients[X].listed) # (id \in clients[X].joined)

\* C34: once the events emitted so far are delivered, the participants list
\* of the client of every connected member holds the nicknames of the
\* server's entries of its room, each as often, after any joins, switches,
\* rejoins and disconnects.
C34_ClientListMatches ==
  \A c \in Conns :
    (conn[c] = "connected" /\ lastJoin[c] # NULL) =>
      SameMultiset(clients[c].participants, participants(rooms, lastJoin[c].v))

\* C35: with the sweep run by the timer once every hour, no record is stored
\* or returned by a get more than 25 hours after its most recent put, and a
\* firing of the timer leaves no record whose age exceeds 24 hours.
C35_SweptWithin25Hours ==
  /\ \A i \in 1..Len(voiceMessages) :
        Age(voiceMessages[i], now) <= 25 * 60 * 60 * 1000
  /\ (sop.op = "get" /\ sop.result.t = "object") =>
        sop.now0 - sop.result.timestamp <= 25 * 60 * 60 * 1000
  /\ sop.op = "timer" =>
        \A i \in 1..Len(voiceMessages) :
          ~(Age(voiceMessages[i], now) > 24 * 60 * 60 * 1000)

\* The timer removed a record exactly 25 hours after its put: it was 24 hours
\* old, and so kept, at the firing before.
C35_Witness ==
  /\ sop.op = "timer"
  /\ sop.deleted = 1
  /\ \E i \in 1..Len(sop.store0) :
        /\ Age(sop.store0[i], now) = 25 * 60 * 60 * 1000
        /\ sop.store0[i].key \notin Keys(voiceMessages)

\* C36: a send-message or send-voice step, accepted or dropped, changes
\* neither the registry nor the voice store, and a put, get or sweep changes
\* neither the registry nor the session state of any connection.
C36_SendAndStoreFrames ==
  [][ /\ (last' # last /\ last'.op \in {"send-message", "send-voice"}) =>
           /\ rooms' = rooms
           /\ voiceMessages' = voiceMessages
      /\ (sop' # sop /\ sop'.op \in {"put", "get", "sweep"}) =>
           /\ rooms' = rooms
           /\ conn' = conn
           /\ currentRoom' = currentRoom
           /\ currentNickname' = currentNickname ]_vars

\* A send-voice was relayed for a clip the store holds, from a room of two.
C36_Witness ==
  /\ last.op = "send-voice"
  /\ out # <<>>
  /\ mapHas(voiceMessages, last.data.messageId.v)
  /\ \E r \in DOMAIN rooms : Len(rooms[r]) = 2

\* C39: whatever the order of the clicks, the tasks of the recorders and the
\* completions of the uploads, every clip that was assembled consists of the
\* chunks of its own recording session and of nothing else, and at most one
\* upload is in flight.
C39_ClipsOwnChunksOneUpload ==
  /\ \A s \in Sessions : recorder.clip[s] # <<>> => recorder.clip[s] = <<s>>
  /\ Cardinality({s \in Sessions : Uploading(s)}) <= 1

====
